---- MODULE Spec2Model ----
(***************************************************************************)
(* woodwork/column_accessor.py: WoodworkColumnAccessor, the 'ww' accessor  *)
(* that attaches a schema record (logical type, semantic tags,             *)
(* description, metadata) to a pandas Series.                              *)
(*                                                                         *)
(* Python values are modelled as records carrying their Python type, so    *)
(* that the validators can tell a str from an int and a dict from a list.  *)
(* An exception is modelled as the err field of an operation's result:     *)
(*   "IncompatibleTypeError"  the ValueError raised at lines 94-96,        *)
(*   "ValidationError"        the error raised by Ordinal._validate_data,  *)
(*   "TypeError"              a validator's TypeError, or Python's own     *)
(*                            TypeError on subscripting self._schema=None. *)
(***************************************************************************)
EXTENDS Integers, Sequences, FiniteSets, TLC

VARIABLES series, schema, last

vars == <<series, schema, last>>

\* ------------------------------------------------------------------ bounds

\* Longest column (number of rows) the model draws.
MaxLen == 2

\* The values a column's rows and an Ordinal's order are drawn from.
Vals == {1, 2}

SeqsUpTo(S, n) == UNION {[1..k -> S] : k \in 0..n}

Range(s) == {s[i] : i \in 1..Len(s)}

\* ----------------------------------------------------------- Python values

PyNone == [t |-> "NoneType", v |-> "None"]
PyStr(s) == [t |-> "str", v |-> s]
PyInt(s) == [t |-> "int", v |-> s]
\* An object json.dumps cannot serialize.
PyObject == [t |-> "object", v |-> "<object>"]

\* A metadata argument: a dict (its items as key/value pairs), None, or a list.
MetaNone == [t |-> "NoneType", items |-> {}]
MetaDict(kv) == [t |-> "dict", items |-> kv]
MetaList == [t |-> "list", items |-> {}]

\* A semantic_tags argument: None, one str, or a list of str.
TagsNone == [t |-> "NoneType", items |-> <<>>]
TagsStr(s) == [t |-> "str", items |-> <<s>>]
TagsList(s) == [t |-> "list", items |-> s]

\* ------------------------------------------------ the logical-type catalog

\* logical_type=None: no logical type given, the type is inferred.
NoLogicalType == [name |-> "None", pandas_dtype |-> "", standard_tags |-> {}, order |-> <<>>]

Integer == [name |-> "Integer", pandas_dtype |-> "int64", standard_tags |-> {"numeric"}, order |-> <<>>]

Categorical == [name |-> "Categorical", pandas_dtype |-> "category", standard_tags |-> {"category"}, order |-> <<>>]

NaturalLanguage == [name |-> "NaturalLanguage", pandas_dtype |-> "string", standard_tags |-> {}, order |-> <<>>]

Ordinal(order) == [name |-> "Ordinal", pandas_dtype |-> "category", standard_tags |-> {"category"}, order |-> order]

\* isinstance(logical_type, Ordinal)
IsOrdinal(logical_type) == logical_type.name = "Ordinal"

\* Ordinal._validate_data(series): the declared order has no duplicates and
\* names only values present in the column.
_validate_data(logical_type, s) ==
    /\ \A i, j \in 1..Len(logical_type.order) :
          logical_type.order[i] = logical_type.order[j] => i = j
    /\ Range(logical_type.order) \subseteq Range(s.values)

\* The type inference run when no logical type is given.
infer(s) ==
    CASE s.dtype = "int64" -> Integer
      [] s.dtype = "category" -> Categorical
      [] OTHER -> NaturalLanguage

\* _get_column_logical_type(series, logical_type, name): the explicit type
\* takes precedence, otherwise the type is inferred from the series.
_get_column_logical_type(s, logical_type) ==
    IF logical_type = NoLogicalType THEN infer(s) ELSE logical_type

\* ------------------------------------------- schema_column's helper functions

\* _validate_description: a str or None, else TypeError.
_validate_description(description) == description.t \in {"str", "NoneType"}

JsonSerializable(val) == val.t \in {"str", "int", "NoneType"}

\* _validate_metadata: a dict whose values are JSON-serializable, else TypeError.
_validate_metadata(metadata) ==
    /\ metadata.t = "dict"
    /\ \A kv \in metadata.items : JsonSerializable(kv[2])

\* The tags given by the caller, as a set: None is the empty set, a str is
\* the singleton of it, a collection is the set of its elements.
_get_column_tags(semantic_tags, logical_type, use_standard_tags) ==
    (IF use_standard_tags THEN logical_type.standard_tags ELSE {})
        \cup Range(semantic_tags.items)

\* The accessor before init: self._schema = None.
None == [none |-> TRUE]

\* _get_column_dict: validates description and metadata and builds the record.
_get_column_dict(name, logical_type, semantic_tags, use_standard_tags, description, metadata) ==
    LET md == IF metadata.t = "NoneType" THEN MetaDict({}) ELSE metadata
    IN  IF ~_validate_description(description) \/ ~_validate_metadata(md)
        THEN [err |-> "TypeError", dict |-> None]
        ELSE [err |-> "ok",
              dict |-> [name |-> name,
                        logical_type |-> logical_type,
                        semantic_tags |-> _get_column_tags(semantic_tags, logical_type, use_standard_tags),
                        use_standard_tags |-> use_standard_tags,
                        description |-> description,
                        metadata |-> md]]

\* ------------------------------------------------- WoodworkColumnAccessor

\* Mutant: the dtype comparison is left out.
_validate_logical_type_no_dtype_check(s, logical_type) ==
    IF IsOrdinal(logical_type)
    THEN [err |-> IF _validate_data(logical_type, s) THEN "ok" ELSE "ValidationError",
          hook |-> TRUE]
    ELSE [err |-> "ok", hook |-> FALSE]

\* Mutant: the Ordinal's validation of the data runs before the dtype check.
_validate_logical_type_hook_first(s, logical_type) ==
    IF IsOrdinal(logical_type) /\ ~_validate_data(logical_type, s)
    THEN [err |-> "ValidationError", hook |-> TRUE]
    ELSE IF logical_type.pandas_dtype # s.dtype
         THEN [err |-> "IncompatibleTypeError", hook |-> IsOrdinal(logical_type)]
         ELSE [err |-> "ok", hook |-> IsOrdinal(logical_type)]

\* _validate_logical_type: the dtype check, then, for an Ordinal only, the
\* type's own validation of the data.  hook tells whether _validate_data ran.
_validate_logical_type(s, logical_type) ==
    IF logical_type.pandas_dtype # s.dtype
    THEN [err |-> "IncompatibleTypeError", hook |-> FALSE]
    ELSE IF IsOrdinal(logical_type)
         THEN [err |-> IF _validate_data(logical_type, s) THEN "ok" ELSE "ValidationError",
               hook |-> TRUE]
         ELSE [err |-> "ok", hook |-> FALSE]

\* Mutant: a type that was inferred, not given, is installed unvalidated.
init_trust_inferred(s, old, args) ==
    LET logical_type == _get_column_logical_type(s, args.logical_type)
        checked == IF args.logical_type = NoLogicalType
                   THEN [err |-> "ok", hook |-> FALSE]
                   ELSE _validate_logical_type(s, logical_type)
        built == _get_column_dict(s.name, logical_type, args.semantic_tags,
                                  args.use_standard_tags, args.description, args.metadata)
    IN  IF checked.err # "ok"
        THEN [err |-> checked.err, hook |-> checked.hook, schema |-> old]
        ELSE IF built.err # "ok"
             THEN [err |-> built.err, hook |-> checked.hook, schema |-> old]
             ELSE [err |-> "ok", hook |-> checked.hook, schema |-> built.dict]

\* Mutant: self._schema is assigned a record without description and
\* metadata before these are validated.
init_partial_record(s, old, args) ==
    LET logical_type == _get_column_logical_type(s, args.logical_type)
        checked == _validate_logical_type(s, logical_type)
        built == _get_column_dict(s.name, logical_type, args.semantic_tags,
                                  args.use_standard_tags, args.description, args.metadata)
        partial == _get_column_dict(s.name, logical_type, args.semantic_tags,
                                    args.use_standard_tags, PyNone, MetaNone)
    IN  IF checked.err # "ok"
        THEN [err |-> checked.err, hook |-> checked.hook, schema |-> old]
        ELSE IF built.err # "ok"
             THEN [err |-> built.err, hook |-> checked.hook, schema |-> partial.dict]
             ELSE [err |-> "ok", hook |-> checked.hook, schema |-> built.dict]

\* Mutant: with metadata omitted, the metadata of the record being replaced
\* is carried over.
init_keep_metadata(s, old, args) ==
    LET logical_type == _get_column_logical_type(s, args.logical_type)
        checked == _validate_logical_type(s, logical_type)
        built == _get_column_dict(s.name, logical_type, args.semantic_tags,
                                  args.use_standard_tags, args.description,
                                  IF args.metadata = MetaNone /\ old # None
                                  THEN old.metadata ELSE args.metadata)
    IN  IF checked.err # "ok"
        THEN [err |-> checked.err, hook |-> checked.hook, schema |-> old]
        ELSE IF built.err # "ok"
             THEN [err |-> built.err, hook |-> checked.hook, schema |-> old]
             ELSE [err |-> "ok", hook |-> checked.hook, schema |-> built.dict]

\* Mutant: use_standard_tags is not passed on, so its default (True) applies.
init_default_standard_tags(s, old, args) ==
    LET logical_type == _get_column_logical_type(s, args.logical_type)
        checked == _validate_logical_type(s, logical_type)
        built == _get_column_dict(s.name, logical_type, args.semantic_tags,
                                  TRUE, args.description, args.metadata)
    IN  IF checked.err # "ok"
        THEN [err |-> checked.err, hook |-> checked.hook, schema |-> old]
        ELSE IF built.err # "ok"
             THEN [err |-> built.err, hook |-> checked.hook, schema |-> old]
             ELSE [err |-> "ok", hook |-> checked.hook, schema |-> built.dict]

\* init: resolve the logical type, validate it, build the record, install it.
\* self._schema is assigned only once _get_column_dict has returned.
init(s, old, args) ==
    LET logical_type == _get_column_logical_type(s, args.logical_type)
        checked == _validate_logical_type(s, logical_type)
        built == _get_column_dict(s.name, logical_type, args.semantic_tags,
                                  args.use_standard_tags, args.description, args.metadata)
    IN  IF checked.err # "ok"
        THEN [err |-> checked.err, hook |-> checked.hook, schema |-> old]
        ELSE IF built.err # "ok"
             THEN [err |-> built.err, hook |-> checked.hook, schema |-> old]
             ELSE [err |-> "ok", hook |-> checked.hook, schema |-> built.dict]

\* Mutant: a getter that answers None when there is no record (dict.get style).
getter_default(old, field) ==
    IF old = None
    THEN [err |-> "ok", out |-> PyNone]
    ELSE [err |-> "ok", out |-> old[field]]

\* A property getter: self._schema[field]; None is not subscriptable.
getter(old, field) ==
    IF old = None
    THEN [err |-> "TypeError", out |-> PyNone]
    ELSE [err |-> "ok", out |-> old[field]]

\* Mutant: the description is assigned before it is validated.
description_setter_assign_first(old, description) ==
    IF old = None
    THEN [err |-> "TypeError", schema |-> old]
    ELSE IF ~_validate_description(description)
         THEN [err |-> "TypeError", schema |-> [old EXCEPT !.description = description]]
         ELSE [err |-> "ok", schema |-> [old EXCEPT !.description = description]]

\* description.setter: validate, then self._schema['description'] = description.
description_setter(old, description) ==
    IF ~_validate_description(description)
    THEN [err |-> "TypeError", schema |-> old]
    ELSE IF old = None
         THEN [err |-> "TypeError", schema |-> old]
         ELSE [err |-> "ok", schema |-> [old EXCEPT !.description = description]]

\* Mutant: the new mapping is merged into the old one (dict.update), the new
\* value winning for a key both hold.
metadata_setter_update(old, metadata) ==
    IF ~_validate_metadata(metadata)
    THEN [err |-> "TypeError", schema |-> old]
    ELSE IF old = None
         THEN [err |-> "TypeError", schema |-> old]
         ELSE [err |-> "ok",
               schema |-> [old EXCEPT !.metadata =
                   MetaDict(metadata.items \cup
                       {kv \in old.metadata.items :
                           \A nv \in metadata.items : nv[1] # kv[1]})]]

\* metadata.setter: validate, then self._schema['metadata'] = metadata.
metadata_setter(old, metadata) ==
    IF ~_validate_metadata(metadata)
    THEN [err |-> "TypeError", schema |-> old]
    ELSE IF old = None
         THEN [err |-> "TypeError", schema |-> old]
         ELSE [err |-> "ok", schema |-> [old EXCEPT !.metadata = metadata]]

\* pandas Series.equals: same dtype, same length, same values in order.
series_equals(s1, s2) == s1.dtype = s2.dtype /\ s1.values = s2.values

\* Mutant: only the series are compared.
__eq__series_only(s1, schema1, s2, schema2) == series_equals(s1, s2)

\* __eq__: the schemas first, then the series.
__eq__(s1, schema1, s2, schema2) ==
    IF schema1 # schema2 THEN FALSE ELSE series_equals(s1, s2)

\* ------------------------------------------------------------------ inputs

Dtypes == {"int64", "category", "object"}

Columns(names) ==
    {[name |-> n, dtype |-> d, values |-> vs] :
        n \in names, d \in Dtypes, vs \in SeqsUpTo(Vals, MaxLen)}

\* Declared category orders: a single value, and both values in reverse.
Orders == {<<1>>, <<2, 1>>}

LogicalTypeArgs == {NoLogicalType, Integer, Categorical} \cup {Ordinal(o) : o \in Orders}

TagArgs == {TagsNone, TagsStr("a"), TagsList(<<"a", "b", "a">>)}

DescriptionArgs == {PyNone, PyStr("text"), PyInt("123")}

MetadataArgs == {MetaNone, MetaDict({<<"k", PyInt("1")>>}), MetaDict({<<"k", PyObject>>})}

\* The values assigned through the metadata setter.
MetadataValues ==
    {MetaDict({<<"k", PyInt("1")>>}), MetaDict({<<"j", PyInt("2")>>}),
     MetaDict({<<"k", PyObject>>}), MetaList}

InitArgs ==
    [logical_type : LogicalTypeArgs, semantic_tags : TagArgs, use_standard_tags : BOOLEAN,
     description : DescriptionArgs, metadata : MetadataArgs]

Fields == {"description", "logical_type", "metadata", "semantic_tags"}

\* The columns and arguments of the two accessors that are compared.
EqColumns ==
    {c \in Columns({"c", "d"}) :
        /\ c.dtype \in {"int64", "category"}
        /\ c.values \in {<<1>>, <<1, 2>>, <<2, 1>>}
        /\ c.name = "d" => (c.dtype = "category" /\ c.values = <<1, 2>>)}

EqInitArgs ==
    [logical_type : {NoLogicalType, Integer}, semantic_tags : {TagsNone, TagsStr("a")},
     use_standard_tags : {TRUE}, description : {PyNone, PyStr("text")}, metadata : {MetaNone}]

EqDescriptionArgs == {PyNone, PyStr("text")}

Accs == {1, 2}

NoOp == [op |-> "none", acc |-> 0, err |-> "ok"]

\* ----------------------------------------------------------------- actions
\* last records the call just made: the operation, the accessor, the error
\* raised ("ok" when none) and what the call was given or returned.

\* __init__: self._series = series, self._schema = None.
Init ==
    /\ \E c \in Columns({"c"}) : series = [a \in Accs |-> c]
    /\ schema = [a \in Accs |-> None]
    /\ last = NoOp

\* Two accessors, each bound to a column of its own.
InitEq ==
    /\ series \in [Accs -> EqColumns]
    /\ schema = [a \in Accs |-> None]
    /\ last = NoOp

\* series.ww.init(...).  before tells whether a record was installed when the
\* call began; the arguments are recorded for a call that succeeded.
Initialize(a, Args) ==
    \E args \in Args :
        LET r == init(series[a], schema[a], args)
        IN  /\ schema' = [schema EXCEPT ![a] = r.schema]
            /\ last' = [op |-> "init", acc |-> a, err |-> r.err, hook |-> r.hook,
                        before |-> schema[a] # None,
                        logical_type |-> args.logical_type,
                        args |-> IF r.err = "ok" THEN <<args>> ELSE <<>>]
            /\ UNCHANGED series

\* series.ww.description = description
SetDescription(a, Args) ==
    \E description \in Args :
        LET r == description_setter(schema[a], description)
        IN  /\ schema' = [schema EXCEPT ![a] = r.schema]
            /\ last' = [op |-> "set_description", acc |-> a, err |-> r.err, arg |-> description]
            /\ UNCHANGED series

\* series.ww.metadata = metadata
SetMetadata(a, Args) ==
    \E metadata \in Args :
        LET r == metadata_setter(schema[a], metadata)
        IN  /\ schema' = [schema EXCEPT ![a] = r.schema]
            /\ last' = [op |-> "set_metadata", acc |-> a, err |-> r.err, arg |-> metadata]
            /\ UNCHANGED series

\* series.ww.description, .logical_type, .metadata, .semantic_tags
Get(a) ==
    \E field \in Fields :
        LET r == getter(schema[a], field)
        IN  /\ last' = [op |-> "get", acc |-> a, err |-> r.err, field |-> field, out |-> r.out]
            /\ UNCHANGED <<series, schema>>

\* series1.ww == series2.ww
Compare(a, b) ==
    /\ last' = [op |-> "eq", acc |-> a, other |-> b, err |-> "ok",
                out |-> __eq__(series[a], schema[a], series[b], schema[b])]
    /\ UNCHANGED <<series, schema>>

Next ==
    \/ Initialize(1, InitArgs)
    \/ SetDescription(1, DescriptionArgs)
    \/ SetMetadata(1, MetadataValues)
    \/ Get(1)

Spec == Init /\ [][Next]_vars

NextEq ==
    \E a \in Accs :
        \/ Initialize(a, EqInitArgs)
        \/ SetDescription(a, EqDescriptionArgs)
        \/ \E b \in Accs : Compare(a, b)

SpecEq == InitEq /\ [][NextEq]_vars

\* ------------------------------------------------------------ properties

\* The logical type an init call given L resolves to on accessor a's series.
Resolved(a, L) == _get_column_logical_type(series[a], L)

\* The call recorded in last is a successful init.
InitSucceeded == last.op = "init" /\ last.err = "ok"

\* C1: an init call that names a logical type whose required physical type
\* differs from the column's fails with IncompatibleTypeError, whatever its
\* other arguments and whatever the accessor held, and leaves the schema
\* record as it was.
C1_IncompatibleTypeRejected ==
    [][(/\ last'.op = "init"
        /\ last'.logical_type # NoLogicalType
        /\ last'.logical_type.pandas_dtype # series[last'.acc].dtype)
         => (last'.err = "IncompatibleTypeError" /\ schema' = schema)]_vars

\* C1 witness: an incompatible type was rejected on an accessor that already
\* held a record.
C1_Witness ==
    /\ last.op = "init"
    /\ last.err = "IncompatibleTypeError"
    /\ last.logical_type # NoLogicalType
    /\ last.before
    /\ schema[last.acc] # None

\* C2: init is all-or-nothing: after an init call that fails, for whichever
\* reason, the schema record is what it was before the call.
C2_FailedInitChangesNothing ==
    [][(last'.op = "init" /\ last'.err # "ok") => schema' = schema]_vars

\* C2 witness: the description or metadata validator rejected an init call
\* on an accessor that already held a record.
C2_Witness ==
    /\ last.op = "init"
    /\ last.err = "TypeError"
    /\ last.before

\* C3: whenever a schema record exists, its logical type's required physical
\* type is the column's physical type.
C3_LogicalTypeMatchesDtype ==
    \A a \in Accs :
        schema[a] # None => schema[a].logical_type.pandas_dtype = series[a].dtype

\* C3 witness: a record whose logical type was inferred is installed.
C3_Witness ==
    /\ InitSucceeded
    /\ last.logical_type = NoLogicalType
    /\ schema[last.acc] # None

\* C4: a successful init replaces the whole record: every field is given by
\* the call's arguments and the column; an omitted description is None and
\* an omitted metadata is the empty mapping, whatever the record held before.
C4_InitReplacesRecord ==
    InitSucceeded =>
        LET a == last.acc
            args == last.args[1]
        IN  /\ schema[a].name = series[a].name
            /\ schema[a].logical_type = Resolved(a, args.logical_type)
            /\ schema[a].use_standard_tags = args.use_standard_tags
            /\ schema[a].description = args.description
            /\ schema[a].metadata =
                  (IF args.metadata = MetaNone THEN MetaDict({}) ELSE args.metadata)
            /\ DOMAIN schema[a] = {"name", "logical_type", "semantic_tags",
                                   "use_standard_tags", "description", "metadata"}

\* C4 witness: an init call that omits description and metadata succeeded on
\* an accessor that already held a record.
C4_Witness ==
    /\ InitSucceeded
    /\ last.before
    /\ last.args[1].description = PyNone
    /\ last.args[1].metadata = MetaNone

\* The caller's tags as a set: absent is empty, a string s is {s}, the
\* elements of a collection with duplicates collapsed.
NormalizedTags(semantic_tags) ==
    CASE semantic_tags.t = "NoneType" -> {}
      [] semantic_tags.t = "str" -> {semantic_tags.items[1]}
      [] OTHER -> {semantic_tags.items[i] : i \in DOMAIN semantic_tags.items}

\* C5: after a successful init, semantic_tags is the resolved type's standard
\* tags (when use_standard_tags is true, else nothing) united with the
\* caller's tags normalized to a set.
C5_SemanticTagsUnion ==
    InitSucceeded =>
        LET a == last.acc
            args == last.args[1]
            standard == IF args.use_standard_tags
                        THEN Resolved(a, args.logical_type).standard_tags
                        ELSE {}
        IN  schema[a].semantic_tags = standard \cup NormalizedTags(args.semantic_tags)

\* C5 witness: a list of tags with a duplicate was given with standard tags
\* switched off.
C5_Witness ==
    /\ InitSucceeded
    /\ last.args[1].semantic_tags = TagsList(<<"a", "b", "a">>)
    /\ ~last.args[1].use_standard_tags
    /\ schema[last.acc].semantic_tags = {"a", "b"}

\* A value that is a string or absent.
StringOrAbsent(val) == val.t = "str" \/ val.t = "NoneType"

\* A mapping all of whose values are JSON-serializable.
SerializableMapping(val) ==
    /\ val.t = "dict"
    /\ \A kv \in val.items : kv[2].t # "object"

\* C6: a setter given an invalid value raises TypeError and leaves the record
\* as it was; so a stored description is always a string or absent and a
\* stored metadata a mapping with JSON-serializable values.
C6_InvalidSetRejected ==
    [][/\ (last'.op = "set_description" /\ ~StringOrAbsent(last'.arg))
            => (last'.err = "TypeError" /\ schema' = schema)
       /\ (last'.op = "set_metadata" /\ ~SerializableMapping(last'.arg))
            => (last'.err = "TypeError" /\ schema' = schema)
       /\ \A a \in Accs :
            schema'[a] # None =>
                /\ StringOrAbsent(schema'[a].description)
                /\ SerializableMapping(schema'[a].metadata)]_vars

\* C6 witness: an initialized accessor refused an int as description.
C6_Witness ==
    /\ last.op = "set_description"
    /\ last.arg = PyInt("123")
    /\ last.err = "TypeError"
    /\ schema[last.acc] # None

\* The declared order has no duplicates and names only values of the column.
OrderConsistent(order, values) ==
    /\ Cardinality({order[i] : i \in DOMAIN order}) = Len(order)
    /\ \A i \in DOMAIN order : \E j \in DOMAIN values : values[j] = order[i]

\* C7: the type's own validation runs exactly when the resolved type is an
\* Ordinal whose physical type matches the column's; such an init fails with
\* ValidationError when the declared order is not consistent with the
\* column's values, and otherwise succeeds (its description and metadata
\* being valid).
C7_OrdinalValidation ==
    /\ last.op = "init" =>
          LET L == Resolved(last.acc, last.logical_type)
          IN  last.hook <=> (IsOrdinal(L) /\ L.pandas_dtype = series[last.acc].dtype)
    /\ \A a \in Accs, L \in {Ordinal(o) : o \in Orders} :
          L.pandas_dtype = series[a].dtype =>
             \A args \in {x \in InitArgs : x.logical_type = L} :
                LET r == init(series[a], schema[a], args)
                IN  IF ~OrderConsistent(L.order, series[a].values)
                    THEN r.err = "ValidationError"
                    ELSE IF StringOrAbsent(args.description)
                            /\ (args.metadata = MetaNone \/ SerializableMapping(args.metadata))
                         THEN r.err = "ok"
                         ELSE r.err = "TypeError"

\* C7 witness: an Ordinal whose order is a permutation of the column's values
\* was installed, its validation having run.
C7_Witness ==
    /\ InitSucceeded
    /\ last.hook
    /\ last.logical_type = Ordinal(<<2, 1>>)
    /\ series[last.acc].values = <<1, 2>>
    /\ schema[last.acc].logical_type = Ordinal(<<2, 1>>)

\* Two columns are element-wise equal: the same physical type, the same length
\* and the same value at every position.
ElementwiseEqual(c1, c2) ==
    /\ c1.dtype = c2.dtype
    /\ Len(c1.values) = Len(c2.values)
    /\ \A i \in 1..Len(c1.values) : c1.values[i] = c2.values[i]

C9_NoRecordBeforeInit ==
    [][\A a \in Accs :
        /\ (last'.op = "get" /\ last'.acc = a /\ schema[a] = None) => last'.err # "ok"
        /\ (schema[a] = None /\ schema'[a] # None)
              => (last'.op = "init" /\ last'.acc = a /\ last'.err = "ok")]_vars

\* C9 witness: a getter failed on an accessor without a record.
C9_Witness ==
    /\ last.op = "get"
    /\ last.err = "TypeError"
    /\ schema[last.acc] = None

\* C10: a successful setter overwrites its own field with the value given, in
\* full, and nothing else; name, logical_type and semantic_tags of a record
\* change only by a successful init.
C10_SetterFrame ==
    [][\A a \in Accs :
        /\ (last'.op = "set_description" /\ last'.acc = a /\ last'.err = "ok")
              => /\ schema'[a].description = last'.arg
                 /\ \A f \in DOMAIN schema[a] \ {"description"} : schema'[a][f] = schema[a][f]
                 /\ DOMAIN schema'[a] = DOMAIN schema[a]
                 /\ getter(schema'[a], "description").out = last'.arg
        /\ (last'.op = "set_metadata" /\ last'.acc = a /\ last'.err = "ok")
              => /\ schema'[a].metadata = last'.arg
                 /\ \A f \in DOMAIN schema[a] \ {"metadata"} : schema'[a][f] = schema[a][f]
                 /\ DOMAIN schema'[a] = DOMAIN schema[a]
                 /\ getter(schema'[a], "metadata").out = last'.arg
        /\ (schema[a] # None /\ ~(last'.op = "init" /\ last'.acc = a /\ last'.err = "ok"))
              => /\ schema'[a] # None
                 /\ schema'[a].name = schema[a].name
                 /\ schema'[a].logical_type = schema[a].logical_type
                 /\ schema'[a].semantic_tags = schema[a].semantic_tags]_vars

\* C10 witness: the metadata setter replaced the mapping on a record that
\* keeps its description.
C10_Witness ==
    /\ last.op = "set_metadata"
    /\ last.err = "ok"
    /\ last.arg = MetaDict({<<"j", PyInt("2")>>})
    /\ schema[last.acc].metadata = last.arg
    /\ schema[last.acc].description = PyStr("text")

====
